---- MODULE Spec2Model ----
(***************************************************************************)
(* Model of the board-game-timer server (src/server/index.ts, lines 1-255):*)
(* the room registry, the per-room GameState, the message handlers         *)
(* (joinRoom, tap, reset, changeTime), the close handler and the 250 ms    *)
(* tick.                                                                   *)
(*                                                                         *)
(* Time.  Durations and timestamps are JavaScript numbers.  Date.now() is  *)
(* an integer number of milliseconds, but the duration a client sends in a *)
(* changeTime message is any number (the client sends                      *)
(* parseFloat(minutes) * 60000).  The model counts time in units of 1/MS   *)
(* of a millisecond: Date.now() is always a multiple of MS, a client       *)
(* duration is any integer number of units.  The wall clock is monotonic   *)
(* and does not move while a handler runs (every Date.now() call of one    *)
(* handler returns the same value).                                        *)
(*                                                                         *)
(* Indices.  currentPlayerIndex and windex are 0-based as in the source;   *)
(* the player at index i is players[i + 1] of the TLA+ sequence.           *)
(***************************************************************************)
EXTENDS Integers, Sequences, FiniteSets, TLC

\* ------------------------------------------------------------------ bounds
\* model time units per millisecond
MS == 2
\* the wall clock runs from 0 to MaxClock milliseconds
MaxClock == 2
\* number of joinRoom messages handled (each draws one randomUUID)
MaxJoins == 2

\* ------------------------------------------------------- program constants
\* const TIMER_LIMIT = 1.2 (minutes); TIME_LIMIT = TIMER_LIMIT * 60 * 1000 ms
TIME_LIMIT == 72000 * MS

\* threshold of the winner search, p.remainingTime >= 1 (millisecond)
WinnerThreshold == 1 * MS

\* ------------------------------------------------------------ input domains
\* websocket connections accepted by the server
Conns == {"w1", "w2"}
\* room identifiers clients send
RoomIds == {"r1"}
\* user names clients send, in the order in which the model introduces them
Names == <<"A", "B", "C", "D">>
\* durations clients send in changeTime: a negative one, a fraction of a
\* millisecond, and one millisecond
TimeInputs == {0 - MS, MS - 1, MS}

\* ws.data before any join
NoData == [roomId |-> "", playerId |-> 0]

VARIABLES
  now,        \* Date.now(), in time units
  rooms,      \* const rooms: Record<string, RoomState>
  roomKeys,   \* Object.keys(rooms): the room ids in insertion order
  wsData,     \* ws.data of every connection
  readyState, \* ws.readyState of every connection (1 = OPEN, 3 = CLOSED)
  nextId,     \* number of randomUUID() values drawn so far
  delivered,  \* messages sent to every connection by the last step
  last        \* the last step taken: what ran, on which connection and room,
              \* that room's running flag and current index before it, whether
              \* it threw

vars == <<now, rooms, roomKeys, wsData, readyState, nextId, delivered, last>>

\* ------------------------------------------------------------ pure helpers
Max(a, b) == IF a >= b THEN a ELSE b

\* gameState.players[i] for a 0-based index i
PlayerAt(gs, i) == gs.players[i + 1]

\* 0-based indices of gs.players
Indices(gs) == 0 .. (Len(gs.players) - 1)

\* players.filter((p) => p.remainingTime > 0), as the set of indices
Alive(gs) == {i \in Indices(gs) : PlayerAt(gs, i).remainingTime > 0}

createGameState(timeLimit, t) ==
  [players |-> <<>>,
   currentPlayerIndex |-> 0,
   lastTickTimestamp |-> t,
   running |-> FALSE,
   timeLimit |-> timeLimit,
   windex |-> -1]

\* updateCurrentPlayerTime reads gameState.players[currentPlayerIndex]
\* .remainingTime: a TypeError when the index selects no player
updateThrows(gs) ==
  gs.running /\ gs.currentPlayerIndex \notin Indices(gs)

\* mutant: the elapsed time is taken off the room's timeLimit instead of the
\* player's remainingTime
updateCurrentPlayerTime_chargesTimeLimit(gs, t) ==
  IF ~gs.running THEN gs
  ELSE LET i == gs.currentPlayerIndex
           elapsed == t - gs.lastTickTimestamp
           remaining == Max(0, gs.timeLimit - elapsed)
           g1 == [gs EXCEPT !.players[i + 1].remainingTime = remaining,
                            !.lastTickTimestamp = t]
       IN IF remaining <= 0
          THEN [g1 EXCEPT !.currentPlayerIndex = (i + 1) % Len(gs.players),
                          !.lastTickTimestamp = t]
          ELSE g1

\* mutant: the settlement moves lastTickTimestamp only when the turn passes
updateCurrentPlayerTime_keepsTimestamp(gs, t) ==
  IF ~gs.running THEN gs
  ELSE LET i == gs.currentPlayerIndex
           elapsed == t - gs.lastTickTimestamp
           remaining == Max(0, PlayerAt(gs, i).remainingTime - elapsed)
           g1 == [gs EXCEPT !.players[i + 1].remainingTime = remaining]
       IN IF remaining <= 0
          THEN [g1 EXCEPT !.currentPlayerIndex = (i + 1) % Len(gs.players),
                          !.lastTickTimestamp = t]
          ELSE g1

updateCurrentPlayerTime(gs, t) ==
  IF ~gs.running THEN gs
  ELSE LET i == gs.currentPlayerIndex
           elapsed == t - gs.lastTickTimestamp
           remaining == Max(0, PlayerAt(gs, i).remainingTime - elapsed)
           g1 == [gs EXCEPT !.players[i + 1].remainingTime = remaining,
                            !.lastTickTimestamp = t]
       IN IF remaining <= 0
          THEN [g1 EXCEPT !.currentPlayerIndex = (i + 1) % Len(gs.players),
                          !.lastTickTimestamp = t]
          ELSE g1

\* one call of updateCurrentPlayerTime as its caller sees it: the call that
\* throws has assigned nothing yet
advance(gs, t) ==
  IF updateThrows(gs) THEN gs ELSE updateCurrentPlayerTime(gs, t)

isGameOver(gs) == Cardinality(Alive(gs)) <= 1

\* mutant: the first tap also passes the turn on
handleTap_rotatesOnStart(gs, playerId, t) ==
  LET g1 == updateCurrentPlayerTime(gs, t)
  IN IF ~g1.running
     THEN [g1 EXCEPT !.running = TRUE,
                     !.windex = -1,
                     !.currentPlayerIndex =
                        (g1.currentPlayerIndex + 1) % Len(g1.players),
                     !.lastTickTimestamp = t]
     ELSE IF PlayerAt(g1, g1.currentPlayerIndex).id = playerId
          THEN [g1 EXCEPT !.currentPlayerIndex =
                             (g1.currentPlayerIndex + 1) % Len(g1.players),
                          !.lastTickTimestamp = t]
          ELSE g1

\* mutant: the first tap does not clear the winner
handleTap_keepsWinner(gs, playerId, t) ==
  LET g1 == updateCurrentPlayerTime(gs, t)
  IN IF ~g1.running
     THEN [g1 EXCEPT !.running = TRUE,
                     !.lastTickTimestamp = t]
     ELSE IF PlayerAt(g1, g1.currentPlayerIndex).id = playerId
          THEN [g1 EXCEPT !.currentPlayerIndex =
                             (g1.currentPlayerIndex + 1) % Len(g1.players),
                          !.lastTickTimestamp = t]
          ELSE g1

\* mutant: a tap passes the turn on whoever sent it
handleTap_anyPlayerRotates(gs, playerId, t) ==
  LET g1 == updateCurrentPlayerTime(gs, t)
  IN IF ~g1.running
     THEN [g1 EXCEPT !.running = TRUE,
                     !.windex = -1,
                     !.lastTickTimestamp = t]
     ELSE [g1 EXCEPT !.currentPlayerIndex =
                        (g1.currentPlayerIndex + 1) % Len(g1.players),
                     !.lastTickTimestamp = t]

handleTap(gs, playerId, t) ==
  LET g1 == updateCurrentPlayerTime(gs, t)
  IN IF ~g1.running
     THEN [g1 EXCEPT !.running = TRUE,
                     !.windex = -1,
                     !.lastTickTimestamp = t]
     ELSE IF PlayerAt(g1, g1.currentPlayerIndex).id = playerId
          THEN [g1 EXCEPT !.currentPlayerIndex =
                             (g1.currentPlayerIndex + 1) % Len(g1.players),
                          !.lastTickTimestamp = t]
          ELSE g1

\* players.findIndex((p) => p.remainingTime >= 1): first index or -1
findWinnerIndex(gs) ==
  LET S == {i \in Indices(gs) : PlayerAt(gs, i).remainingTime >= WinnerThreshold}
  IN IF S = {} THEN -1 ELSE CHOOSE i \in S : \A j \in S : i <= j

\* body of the tick for one running room, before the broadcast
tickRoom(gs, t) ==
  LET g1 == updateCurrentPlayerTime(gs, t)
  IN IF isGameOver(g1)
     THEN LET winnerIndex == findWinnerIndex(g1)
          IN [g1 EXCEPT !.running = FALSE,
                        !.currentPlayerIndex = winnerIndex,
                        !.windex = winnerIndex]
     ELSE g1

\* mutant: the tap branch without its game-over check
tapBranch_noGameOverCheck(gs, playerId, t) ==
  handleTap(gs, playerId, t)

\* the tap branch of the message handler after its guards
tapBranch(gs, playerId, t) ==
  LET g1 == handleTap(gs, playerId, t)
  IN IF isGameOver(g1) THEN [g1 EXCEPT !.running = FALSE] ELSE g1

\* mutant: reset restores the times and the winner marker but lets the
\* clock run on
resetBranch_keepsRunning(gs) ==
  [gs EXCEPT !.players = [k \in DOMAIN gs.players |->
                            [gs.players[k] EXCEPT !.remainingTime = gs.timeLimit]],
             !.windex = gs.currentPlayerIndex]

\* mutant: reset clears the winner instead of copying currentPlayerIndex
resetBranch_clearsWinner(gs) ==
  [gs EXCEPT !.running = FALSE,
             !.players = [k \in DOMAIN gs.players |->
                            [gs.players[k] EXCEPT !.remainingTime = gs.timeLimit]],
             !.windex = -1]

\* the reset branch after its guards
resetBranch(gs) ==
  [gs EXCEPT !.running = FALSE,
             !.players = [k \in DOMAIN gs.players |->
                            [gs.players[k] EXCEPT !.remainingTime = gs.timeLimit]],
             !.windex = gs.currentPlayerIndex]

\* mutant: changeTime leaves the winner marker alone
changeTimeBranch_keepsWinner(gs, time) ==
  [gs EXCEPT !.running = FALSE,
             !.timeLimit = time,
             !.players = [k \in DOMAIN gs.players |->
                            [gs.players[k] EXCEPT !.remainingTime = time]]]

\* the changeTime branch after its guards
changeTimeBranch(gs, time) ==
  [gs EXCEPT !.running = FALSE,
             !.timeLimit = time,
             !.players = [k \in DOMAIN gs.players |->
                            [gs.players[k] EXCEPT !.remainingTime = time]],
             !.windex = -1]

\* mutant: a new player is put in front of the list
joinPlayers_prepends(gs, username, playerId) ==
  IF \E k \in DOMAIN gs.players : gs.players[k].name = username
  THEN [gs EXCEPT !.players = [k \in DOMAIN gs.players |->
                     IF gs.players[k].name # username THEN gs.players[k]
                     ELSE [gs.players[k] EXCEPT !.id = playerId]]]
  ELSE [gs EXCEPT !.players = <<[id |-> playerId, name |-> username,
                                 remainingTime |-> TIME_LIMIT]>> \o gs.players]

\* mutant: a rejoining player gets a fresh clock
joinPlayers_rebindResetsTime(gs, username, playerId) ==
  IF \E k \in DOMAIN gs.players : gs.players[k].name = username
  THEN [gs EXCEPT !.players = [k \in DOMAIN gs.players |->
                     IF gs.players[k].name # username THEN gs.players[k]
                     ELSE [gs.players[k] EXCEPT !.id = playerId,
                                                !.remainingTime = TIME_LIMIT]]]
  ELSE [gs EXCEPT !.players = Append(gs.players,
                     [id |-> playerId, name |-> username,
                      remainingTime |-> TIME_LIMIT])]

\* the joinRoom branch on the room's gameState: rebind or push
joinPlayers(gs, username, playerId) ==
  IF \E k \in DOMAIN gs.players : gs.players[k].name = username
  THEN [gs EXCEPT !.players = [k \in DOMAIN gs.players |->
                     IF gs.players[k].name # username THEN gs.players[k]
                     ELSE [gs.players[k] EXCEPT !.id = playerId]]]
  ELSE [gs EXCEPT !.players = Append(gs.players,
                     [id |-> playerId, name |-> username,
                      remainingTime |-> TIME_LIMIT])]

\* broadcastState(roomId): the message each connection receives
broadcastState(rs, roomId) ==
  [w \in Conns |->
     IF roomId \in DOMAIN rs /\ w \in rs[roomId].connections /\ readyState[w] = 1
     THEN <<rs[roomId].gameState>>
     ELSE <<>>]

NoDelivery == [w \in Conns |-> <<>>]

\* mutant: the joinRoom guard forgets the username
joinGuard_roomIdOnly(roomId, username) ==
  roomId # ""

\* if (!roomId || !username) return;
joinGuard(roomId, username) ==
  roomId # "" /\ username # ""

\* if (!ws.data?.roomId || !ws.data?.playerId) return; if (!room) return;
bound(w) ==
  /\ wsData[w].roomId # ""
  /\ wsData[w].playerId # 0
  /\ wsData[w].roomId \in DOMAIN rooms

\* ------------------------------------------------------------------- state
\* record of a step: the handler that ran, its connection and room, the
\* argument of the message (username of a joinRoom, time of a changeTime, ""
\* otherwise), the running flag and currentPlayerIndex that room had when the
\* handler began (FALSE and -1 where no single room is concerned), whether
\* it threw
Step(op, w, roomId, arg, running, index, threw) ==
  [op |-> op, ws |-> w, roomId |-> roomId, arg |-> arg,
   wasRunning |-> running, wasIndex |-> index, threw |-> threw]

wasRunning(roomId) ==
  roomId \in DOMAIN rooms /\ rooms[roomId].gameState.running

wasIndex(roomId) ==
  IF roomId \in DOMAIN rooms THEN rooms[roomId].gameState.currentPlayerIndex
  ELSE -1

Init ==
  /\ now = 0
  /\ rooms = << >>
  /\ roomKeys = << >>
  /\ wsData = [w \in Conns |-> NoData]
  /\ readyState = [w \in Conns |-> 1]
  /\ nextId = 0
  /\ delivered = NoDelivery
  /\ last = Step("init", "", "", "", FALSE, -1, FALSE)

\* the wall clock moves on by one millisecond, up to limit milliseconds
clockWithin(limit) ==
  /\ now + MS <= limit * MS
  /\ now' = now + MS
  /\ delivered' = NoDelivery
  /\ last' = Step("clock", "", "", "", FALSE, -1, FALSE)
  /\ UNCHANGED <<rooms, roomKeys, wsData, readyState, nextId>>

clock == clockWithin(MaxClock)

\* message(ws, {type: 'joinRoom', roomId, username}) past its guard, while
\* fewer than limit joins have been handled
joinRoomWithin(limit, w, roomId, username) ==
  /\ readyState[w] = 1
  /\ joinGuard(roomId, username)
  /\ nextId < limit
  /\ LET playerId == nextId + 1
         created == IF roomId \in DOMAIN rooms THEN rooms
                    ELSE rooms @@ (roomId :>
                           [gameState |-> createGameState(TIME_LIMIT, now),
                            connections |-> {}])
         rs == [created EXCEPT
                  ![roomId].gameState = joinPlayers(@, username, playerId),
                  ![roomId].connections = @ \cup {w}]
     IN /\ rooms' = rs
        /\ roomKeys' = IF roomId \in DOMAIN rooms THEN roomKeys
                       ELSE Append(roomKeys, roomId)
        /\ nextId' = playerId
        /\ wsData' = [wsData EXCEPT ![w] = [roomId |-> roomId, playerId |-> playerId]]
        /\ delivered' = broadcastState(rs, roomId)
  /\ last' = Step("joinRoom", w, roomId, username, wasRunning(roomId), wasIndex(roomId), FALSE)
  /\ UNCHANGED <<now, readyState>>

\* message(ws, {type: 'joinRoom', roomId, username})
joinRoom(w, roomId, username) ==
  joinRoomWithin(MaxJoins, w, roomId, username)

\* message(ws, {type: 'tap'})
tap(w) ==
  /\ readyState[w] = 1
  /\ bound(w)
  /\ LET roomId == wsData[w].roomId
         gs == rooms[roomId].gameState
     IN IF updateThrows(gs)
        THEN /\ UNCHANGED rooms
             /\ delivered' = NoDelivery
             /\ last' = Step("tap", w, roomId, "", TRUE, gs.currentPlayerIndex, TRUE)
        ELSE LET rs == [rooms EXCEPT ![roomId].gameState =
                                        tapBranch(gs, wsData[w].playerId, now)]
             IN /\ rooms' = rs
                /\ delivered' = broadcastState(rs, roomId)
                /\ last' = Step("tap", w, roomId, "", gs.running, gs.currentPlayerIndex, FALSE)
  /\ UNCHANGED <<now, roomKeys, wsData, readyState, nextId>>

\* message(ws, {type: 'reset'})
reset(w) ==
  /\ readyState[w] = 1
  /\ bound(w)
  /\ LET roomId == wsData[w].roomId
         rs == [rooms EXCEPT ![roomId].gameState = resetBranch(@)]
     IN /\ rooms' = rs
        /\ delivered' = broadcastState(rs, roomId)
        /\ last' = Step("reset", w, roomId, "", wasRunning(roomId), wasIndex(roomId), FALSE)
  /\ UNCHANGED <<now, roomKeys, wsData, readyState, nextId>>

\* message(ws, {type: 'changeTime', time})
changeTime(w, time) ==
  /\ readyState[w] = 1
  /\ bound(w)
  /\ LET roomId == wsData[w].roomId
         rs == [rooms EXCEPT ![roomId].gameState = changeTimeBranch(@, time)]
     IN /\ rooms' = rs
        /\ delivered' = broadcastState(rs, roomId)
        /\ last' = Step("changeTime", w, roomId, time, wasRunning(roomId), wasIndex(roomId), FALSE)
  /\ UNCHANGED <<now, roomKeys, wsData, readyState, nextId>>

\* close(ws)
close(w) ==
  /\ readyState[w] = 1
  /\ readyState' = [readyState EXCEPT ![w] = 3]
  /\ LET roomId == wsData[w].roomId
     IN rooms' = IF roomId # "" /\ roomId \in DOMAIN rooms
                 THEN [rooms EXCEPT ![roomId].connections = @ \ {w}]
                 ELSE rooms
  /\ delivered' = NoDelivery
  /\ last' = Step("close", w, wsData[w].roomId, "", FALSE, -1, FALSE)
  /\ UNCHANGED <<now, roomKeys, wsData, nextId>>

\* a message that changes nothing: the handler returns at its guard or logs
Dropped(op, w, roomId, arg) ==
  /\ readyState[w] = 1
  /\ delivered' = NoDelivery
  /\ last' = Step(op, w, roomId, arg, FALSE, -1, FALSE)
  /\ UNCHANGED <<now, rooms, roomKeys, wsData, readyState, nextId>>

\* message(ws, {type: 'joinRoom', roomId, username}) with an empty or missing
\* roomId or username: if (!roomId || !username) return;
joinRoomRefused(w, roomId, username) ==
  /\ ~joinGuard(roomId, username)
  /\ Dropped("joinRoom", w, roomId, username)

\* message(ws, {type}) for type tap, reset or changeTime on a connection that
\* has joined no room: if (!ws.data?.roomId || !ws.data?.playerId) return;
notJoined(w, type) ==
  /\ ~bound(w)
  /\ Dropped(type, w, "", "")

\* message(ws, {type}) with any other type: console.warn
unknownType(w) ==
  Dropped("unknown", w, "", "")

\* the loop of the tick callback over Object.keys(rooms), from position k:
\* a room that is not running is skipped, a running room is settled, checked
\* for game over and broadcast; an exception leaves the callback, so the
\* rooms after it are not processed
RECURSIVE sweepIn(_, _, _, _, _)
sweepIn(keys, rs, dl, k, t) ==
  IF k > Len(keys) THEN [rooms |-> rs, delivered |-> dl, threw |-> FALSE]
  ELSE LET roomId == keys[k]
           gs == rs[roomId].gameState
       IN IF ~gs.running THEN sweepIn(keys, rs, dl, k + 1, t)
          ELSE IF updateThrows(gs)
          THEN [rooms |-> rs, delivered |-> dl, threw |-> TRUE]
          ELSE LET r1 == [rs EXCEPT ![roomId].gameState = tickRoom(gs, t)]
                   b == broadcastState(r1, roomId)
               IN sweepIn(keys, r1, [w \in Conns |-> dl[w] \o b[w]], k + 1, t)

\* the loop in the order of Object.keys(rooms)
sweep(rs, dl, k, t) == sweepIn(roomKeys, rs, dl, k, t)

\* setInterval(() => {...}, 250): one run of the callback
tick ==
  /\ LET res == sweep(rooms, NoDelivery, 1, now)
     IN /\ rooms' = res.rooms
        /\ delivered' = res.delivered
        /\ last' = Step("tick", "", "", "", FALSE, -1, res.threw)
  /\ UNCHANGED <<now, roomKeys, wsData, readyState, nextId>>

\* The server only compares user names for equality, so which new name a
\* client picks does not matter: a join brings either a name the room already
\* has or the first name of Names that it does not have yet.
JoinNames(roomId) ==
  LET used == IF roomId \in DOMAIN rooms
              THEN {rooms[roomId].gameState.players[k].name :
                      k \in DOMAIN rooms[roomId].gameState.players}
              ELSE {}
      fresh == {k \in DOMAIN Names : Names[k] \notin used}
  IN used \cup {Names[k] : k \in {j \in fresh : \A i \in fresh : j <= i}}

Next ==
  \/ clock
  \/ \E w \in Conns, roomId \in RoomIds :
       \E username \in JoinNames(roomId) : joinRoom(w, roomId, username)
  \/ \E w \in Conns : tap(w)
  \/ \E w \in Conns : reset(w)
  \/ \E w \in Conns, time \in TimeInputs : changeTime(w, time)
  \/ \E w \in Conns : close(w)
  \/ tick

Spec == Init /\ [][Next]_vars

\* The same server, with clients that also send the messages the handler
\* drops: joinRoom without roomId or username, tap, reset and changeTime
\* before any joinRoom, and unknown types; observed for one millisecond less.
LessClock == MaxClock - 1

NextDrop ==
  \/ clockWithin(LessClock)
  \/ \E w \in Conns, roomId \in RoomIds \cup {""} :
       \E username \in JoinNames(roomId) \cup {""} :
         \/ joinRoom(w, roomId, username)
         \/ joinRoomRefused(w, roomId, username)
  \/ \E w \in Conns : tap(w) \/ notJoined(w, "tap")
  \/ \E w \in Conns : reset(w) \/ notJoined(w, "reset")
  \/ \E w \in Conns, time \in TimeInputs : changeTime(w, time)
  \/ \E w \in Conns : notJoined(w, "changeTime")
  \/ \E w \in Conns : unknownType(w)
  \/ \E w \in Conns : close(w)
  \/ tick

SpecDrop == Init /\ [][NextDrop]_vars

\* The same server with MoreJoins joinRoom messages, enough for rooms of three
\* and four players, and clients that neither reset nor close.
MoreJoins == MaxJoins + 2

NextMore ==
  \/ clock
  \/ \E w \in Conns, roomId \in RoomIds :
       \E username \in JoinNames(roomId) :
         joinRoomWithin(MoreJoins, w, roomId, username)
  \/ \E w \in Conns : tap(w)
  \/ \E w \in Conns, time \in TimeInputs : changeTime(w, time)
  \/ tick

SpecMore == Init /\ [][NextMore]_vars

\* The same server with a single client that uses two room ids, sends
\* MoreJoins joinRoom messages, never resets and always changes the time to
\* the same fraction of a millisecond.
TwoRooms == {"r1", "r2"}
OneConn == {"w1"}

NextRooms ==
  \/ clock
  \/ \E w \in OneConn, roomId \in TwoRooms :
       \E username \in JoinNames(roomId) :
         joinRoomWithin(MoreJoins, w, roomId, username)
  \/ \E w \in OneConn : tap(w)
  \/ \E w \in OneConn : changeTime(w, MS - 1)
  \/ \E w \in OneConn : close(w)
  \/ tick

SpecRooms == Init /\ [][NextRooms]_vars

\* A long time passes at once: every running clock is owed Long, which is at
\* least any remaining time there is. The time origin is moved instead of
\* now, so that time can pass for ever in a finite state space; the
\* timestamp of a stopped room is not read before the next start overwrites it.
Long == TIME_LIMIT

longWait ==
  /\ rooms' = [r \in DOMAIN rooms |->
                 IF rooms[r].gameState.running
                 THEN [rooms[r] EXCEPT !.gameState.lastTickTimestamp = now - Long]
                 ELSE rooms[r]]
  /\ delivered' = NoDelivery
  /\ last' = Step("clock", "", "", "", FALSE, -1, FALSE)
  /\ UNCHANGED <<now, roomKeys, wsData, readyState, nextId>>

\* The same server over unbounded time: the wall clock keeps advancing and
\* the interval timer keeps firing.
NextLive ==
  \/ longWait
  \/ \E w \in Conns, roomId \in RoomIds :
       \E username \in JoinNames(roomId) : joinRoom(w, roomId, username)
  \/ \E w \in Conns : tap(w)
  \/ \E w \in Conns : reset(w)
  \/ \E w \in Conns, time \in TimeInputs : changeTime(w, time)
  \/ \E w \in Conns : close(w)
  \/ tick

SpecLive == Init /\ [][NextLive]_vars /\ WF_vars(tick) /\ WF_vars(longWait)

\* ------------------------------------------------------------- type check
GameStateOK(gs) ==
  /\ gs.currentPlayerIndex \in -1 .. Len(gs.players)
  /\ gs.running \in BOOLEAN
  /\ gs.lastTickTimestamp \in 0 .. now
  /\ \A k \in DOMAIN gs.players : gs.players[k].id \in 1 .. nextId

TypeOK ==
  /\ now \in 0 .. MaxClock * MS
  /\ \A r \in DOMAIN rooms : GameStateOK(rooms[r].gameState)

\* --------------------------------------------------------------- properties
\* the gameState of room r
GS(r) == rooms[r].gameState

\* the step just taken ran the tick callback to its end
Ticked == last.op = "tick" /\ ~last.threw

\* the step just taken ran the tap branch to its end
Tapped == last.op = "tap" /\ ~last.threw

\* C1: in every reachable state every player's remainingTime is >= 0,
\* whatever duration the clients send in changeTime.
C1_RemainingTimeNeverNegative ==
  \A r \in DOMAIN rooms : \A i \in Indices(GS(r)) :
    PlayerAt(GS(r), i).remainingTime >= 0

\* C2: in every reachable state of a room with players, currentPlayerIndex
\* is an index of the player list, also after the tick that ends the game.
C2_CurrentPlayerIndexValid ==
  \A r \in DOMAIN rooms :
    Len(GS(r).players) > 0 => GS(r).currentPlayerIndex \in Indices(GS(r))

\* C3: whenever a tick or a tap turns running from true to false with exactly
\* one player left with remainingTime > 0, windex is afterwards the index of
\* that player.
C3_WinnerRecordedWhenGameEnds ==
  [][\A r \in DOMAIN rooms :
       ( /\ last'.op \in {"tick", "tap"}
         /\ rooms[r].gameState.running
         /\ ~rooms'[r].gameState.running
         /\ Cardinality(Alive(rooms'[r].gameState)) = 1 )
       => rooms'[r].gameState.windex \in Alive(rooms'[r].gameState)]_vars

\* C4: no state left behind by a handler or a tick, and no gameState message
\* delivered to a connection, has running = true while at most one player has
\* remainingTime > 0.
C4_NotRunningOnceOver ==
  /\ \A r \in DOMAIN rooms : GS(r).running => ~isGameOver(GS(r))
  /\ \A w \in Conns : \A k \in DOMAIN delivered[w] :
       delivered[w][k].running => ~isGameOver(delivered[w][k])

\* C4 witness: a tick has just ended a game and broadcast the finished state
\* to an open connection.
C4_Witness ==
  /\ Ticked
  /\ \E w \in Conns : \E k \in DOMAIN delivered[w] :
       /\ isGameOver(delivered[w][k])
       /\ ~delivered[w][k].running
       /\ \E r \in DOMAIN rooms : GS(r) = delivered[w][k]

\* C5: when a tick settles a running room and exactly one player then has
\* remainingTime > 0 (any positive amount), the tick sets running = false and
\* windex to that player's index.
C5_TickRecordsSoleSurvivor ==
  [][\A r \in DOMAIN rooms :
       ( /\ last'.op = "tick" /\ ~last'.threw
         /\ rooms[r].gameState.running
         /\ Cardinality(Alive(rooms'[r].gameState)) = 1 )
       => /\ ~rooms'[r].gameState.running
          /\ rooms'[r].gameState.windex \in Alive(rooms'[r].gameState)]_vars

\* C6: a joinRoom with a name the room does not have yet appends one player
\* whose remainingTime is the room's current timeLimit, also after a
\* changeTime.
C6_JoinStartsAtRoomTimeLimit ==
  [][\A r \in DOMAIN rooms' :
       LET before == IF r \in DOMAIN rooms THEN rooms[r].gameState.players
                     ELSE << >>
           g == rooms'[r].gameState
       IN ( /\ last'.op = "joinRoom" /\ last'.roomId = r
            /\ Len(g.players) = Len(before) + 1 )
          => /\ SubSeq(g.players, 1, Len(g.players) - 1) = before
             /\ g.players[Len(g.players)].remainingTime = g.timeLimit]_vars

\* connection w is bound to the player at index i of room r
BoundTo(w, r, i) ==
  /\ i \in Indices(GS(r))
  /\ wsData[w].roomId = r
  /\ wsData[w].playerId = PlayerAt(GS(r), i).id

\* room r holds exactly players A (index 0) and B (index 1), both at a
\* positive timeLimit, the clock not running, the turn at index 0
TwoPlayersReady(r) ==
  /\ Len(GS(r).players) = 2
  /\ ~GS(r).running
  /\ GS(r).currentPlayerIndex = 0
  /\ GS(r).timeLimit > 0
  /\ \A i \in Indices(GS(r)) : PlayerAt(GS(r), i).remainingTime = GS(r).timeLimit

\* C7 (as stated): with two players A (index 0) and B (index 1), both at
\* timeLimit and the clock not running, A's first tap results in
\* running = true and currentPlayerIndex = 1.
C7_FirstTapPassesTurn ==
  [][\A r \in DOMAIN rooms :
       ( /\ last'.op = "tap" /\ ~last'.threw /\ last'.roomId = r
         /\ TwoPlayersReady(r)
         /\ BoundTo(last'.ws, r, 0) )
       => /\ rooms'[r].gameState.running
          /\ rooms'[r].gameState.currentPlayerIndex = 1]_vars

\* C7 (amended): in that scenario A's first tap results in running = true
\* and currentPlayerIndex = 0: the first tap starts the clock on A.
C7_FirstTapKeepsTurn ==
  [][\A r \in DOMAIN rooms :
       ( /\ last'.op = "tap" /\ ~last'.threw /\ last'.roomId = r
         /\ TwoPlayersReady(r)
         /\ BoundTo(last'.ws, r, 0) )
       => /\ rooms'[r].gameState.running
          /\ rooms'[r].gameState.currentPlayerIndex = 0]_vars

\* C7 witness: A has just tapped first in a two-player room at full time.
C7_Witness ==
  /\ Tapped /\ ~last.wasRunning /\ last.wasIndex = 0
  /\ last.roomId \in DOMAIN rooms
  /\ LET g == GS(last.roomId)
     IN /\ Len(g.players) = 2
        /\ g.running
        /\ g.timeLimit > 0
        /\ \A i \in Indices(g) : PlayerAt(g, i).remainingTime = g.timeLimit
        /\ BoundTo(last.ws, last.roomId, 0)

\* C8 (as stated): a tap handled while the clock is not running leaves
\* running = true, lastTickTimestamp = now, windex = -1, and
\* currentPlayerIndex and every remainingTime unchanged, whoever sent it.
C8_TapStartsClock ==
  [][\A r \in DOMAIN rooms :
       ( /\ last'.op = "tap" /\ ~last'.threw /\ last'.roomId = r
         /\ ~rooms[r].gameState.running )
       => /\ rooms'[r].gameState.running
          /\ rooms'[r].gameState.lastTickTimestamp = now
          /\ rooms'[r].gameState.windex = -1
          /\ rooms'[r].gameState.currentPlayerIndex =
               rooms[r].gameState.currentPlayerIndex
          /\ rooms'[r].gameState.players = rooms[r].gameState.players]_vars

\* C8 (amended): a tap handled while the clock is not running leaves
\* lastTickTimestamp = now, windex = -1, currentPlayerIndex and every
\* remainingTime unchanged, whoever sent it; running is true afterwards
\* exactly when at least two players have remainingTime > 0.
C8_TapStartsClockUnlessOver ==
  [][\A r \in DOMAIN rooms :
       ( /\ last'.op = "tap" /\ ~last'.threw /\ last'.roomId = r
         /\ ~rooms[r].gameState.running )
       => /\ rooms'[r].gameState.running =
               (Cardinality({k \in DOMAIN rooms[r].gameState.players :
                   rooms[r].gameState.players[k].remainingTime > 0}) >= 2)
          /\ rooms'[r].gameState.lastTickTimestamp = now
          /\ rooms'[r].gameState.windex = -1
          /\ rooms'[r].gameState.currentPlayerIndex =
               rooms[r].gameState.currentPlayerIndex
          /\ rooms'[r].gameState.players = rooms[r].gameState.players]_vars

\* C8 witness: a tap sent by a player who is not at currentPlayerIndex has
\* just started the clock, some time after the room was created.
C8_Witness ==
  /\ Tapped /\ ~last.wasRunning
  /\ last.roomId \in DOMAIN rooms
  /\ LET g == GS(last.roomId)
     IN /\ g.running
        /\ g.lastTickTimestamp = now
        /\ now > 0
        /\ g.windex = -1
        /\ g.currentPlayerIndex = last.wasIndex
        /\ \E j \in Indices(g) \ {g.currentPlayerIndex} :
             BoundTo(last.ws, last.roomId, j)

\* C9 (as stated): with the clock running and A at currentPlayerIndex, a tap
\* from a connection bound to another player B leaves currentPlayerIndex and
\* every remainingTime unchanged.
C9_OutOfTurnTapChangesNothing ==
  [][\A r \in DOMAIN rooms :
       ( /\ last'.op = "tap" /\ ~last'.threw /\ last'.roomId = r
         /\ rooms[r].gameState.running
         /\ \E j \in Indices(GS(r)) \ {GS(r).currentPlayerIndex} :
              BoundTo(last'.ws, r, j) )
       => /\ rooms'[r].gameState.currentPlayerIndex =
               rooms[r].gameState.currentPlayerIndex
          /\ rooms'[r].gameState.players = rooms[r].gameState.players]_vars

\* C9 (amended): with the clock running, A at currentPlayerIndex with
\* remaining time r and e = now - lastTickTimestamp < r, a tap from a
\* connection bound to another player B leaves currentPlayerIndex and every
\* other player's remainingTime unchanged and settles A's to r - e.
C9_OutOfTurnTapOnlySettles ==
  [][\A r \in DOMAIN rooms :
       LET g == rooms[r].gameState
           i == g.currentPlayerIndex
           e == now - g.lastTickTimestamp
       IN ( /\ last'.op = "tap" /\ ~last'.threw /\ last'.roomId = r
            /\ g.running
            /\ i \in Indices(g)
            /\ e < g.players[i + 1].remainingTime
            /\ \E j \in Indices(g) \ {i} : BoundTo(last'.ws, r, j) )
          => /\ rooms'[r].gameState.currentPlayerIndex = i
             /\ rooms'[r].gameState.players =
                  [g.players EXCEPT ![i + 1].remainingTime = @ - e]]_vars

\* C9 witness: in a running two-player room the player whose turn it is not
\* has just tapped, after time had passed since the last settlement, and the
\* turn did not move.
C9_Witness ==
  /\ Tapped /\ last.wasRunning
  /\ last.roomId \in DOMAIN rooms
  /\ LET g == GS(last.roomId)
     IN /\ Len(g.players) = 2
        /\ g.running
        /\ g.currentPlayerIndex = last.wasIndex
        /\ BoundTo(last.ws, last.roomId, 1 - g.currentPlayerIndex)
        /\ PlayerAt(g, g.currentPlayerIndex).remainingTime \in 1 .. (g.timeLimit - 1)
        /\ PlayerAt(g, 1 - g.currentPlayerIndex).remainingTime = g.timeLimit
        /\ g.lastTickTimestamp = now

\* C10: with the clock running, when the player at currentPlayerIndex = i
\* with remaining time r taps at time now and e = now - lastTickTimestamp < r,
\* that player's remainingTime becomes r - e, currentPlayerIndex becomes
\* (i + 1) mod playerCount, lastTickTimestamp becomes now, running stays
\* true and no other player's remainingTime changes.
C10_InTurnTapRotates ==
  [][\A r \in DOMAIN rooms :
       LET g == rooms[r].gameState
           i == g.currentPlayerIndex
           e == now - g.lastTickTimestamp
       IN ( /\ last'.op = "tap" /\ ~last'.threw /\ last'.roomId = r
            /\ g.running
            /\ BoundTo(last'.ws, r, i)
            /\ e < g.players[i + 1].remainingTime )
          => /\ rooms'[r].gameState.players =
                  [g.players EXCEPT ![i + 1].remainingTime = @ - e]
             /\ rooms'[r].gameState.currentPlayerIndex = (i + 1) % Len(g.players)
             /\ rooms'[r].gameState.lastTickTimestamp = now
             /\ rooms'[r].gameState.running]_vars

\* C10 witness: the player whose turn it was has just tapped after time had
\* passed, keeps part of the time and has passed the turn on.
C10_Witness ==
  /\ Tapped /\ last.wasRunning
  /\ last.roomId \in DOMAIN rooms
  /\ LET g == GS(last.roomId)
     IN /\ BoundTo(last.ws, last.roomId, last.wasIndex)
        /\ g.running
        /\ g.currentPlayerIndex = (last.wasIndex + 1) % Len(g.players)
        /\ g.currentPlayerIndex # last.wasIndex
        /\ PlayerAt(g, last.wasIndex).remainingTime \in 1 .. (g.timeLimit - 1)
        /\ g.lastTickTimestamp = now

\* the names of a player list, in order
NamesOf(players) == [k \in DOMAIN players |-> players[k].name]

\* sequence a is the beginning of sequence b
IsPrefix(a, b) == Len(a) <= Len(b) /\ SubSeq(b, 1, Len(a)) = a

\* every player's remainingTime set to time
AllAt(players, time) ==
  [k \in DOMAIN players |-> [players[k] EXCEPT !.remainingTime = time]]

\* C11: tap, reset, changeTime and tick steps never change the list of player
\* names or its order, and a joinRoom only appends to the end of the list.
C11_PlayerOrderKept ==
  [][\A r \in DOMAIN rooms' :
       LET before == IF r \in DOMAIN rooms
                     THEN NamesOf(rooms[r].gameState.players) ELSE << >>
           after == NamesOf(rooms'[r].gameState.players)
       IN IF last'.op = "joinRoom"
          THEN IsPrefix(before, after) /\ Len(after) <= Len(before) + 1
          ELSE after = before]_vars

\* C11 witness: a second player has just been appended behind the first.
C11_Witness ==
  /\ last.op = "joinRoom"
  /\ last.roomId \in DOMAIN rooms
  /\ NamesOf(GS(last.roomId).players) = <<Names[1], Names[2]>>
  /\ last.arg = Names[2]

C13_Reset ==
  [][\A r \in DOMAIN rooms :
       LET g == rooms[r].gameState
       IN (last'.op = "reset" /\ last'.roomId = r)
          => /\ ~rooms'[r].gameState.running
             /\ rooms'[r].gameState.players = AllAt(g.players, g.timeLimit)
             /\ rooms'[r].gameState.windex = g.currentPlayerIndex
             /\ rooms'[r].gameState.currentPlayerIndex = g.currentPlayerIndex
             /\ rooms'[r].gameState.timeLimit = g.timeLimit]_vars

\* C13 witness: a reset has just stopped a running two-player game in which
\* the turn had moved to the second player.
C13_Witness ==
  /\ last.op = "reset" /\ last.wasRunning /\ last.wasIndex = 1
  /\ last.roomId \in DOMAIN rooms
  /\ LET g == GS(last.roomId)
     IN /\ ~g.running
        /\ g.windex = 1
        /\ g.currentPlayerIndex = 1
        /\ \A i \in Indices(g) : PlayerAt(g, i).remainingTime = g.timeLimit

\* C14: changeTime(newLimit), in any state of a room, sets running = false,
\* timeLimit = newLimit, every player's remainingTime = newLimit and
\* windex = -1, and leaves currentPlayerIndex and the player order unchanged.
C14_ChangeTime ==
  [][\A r \in DOMAIN rooms :
       LET g == rooms[r].gameState
       IN (last'.op = "changeTime" /\ last'.roomId = r)
          => /\ ~rooms'[r].gameState.running
             /\ rooms'[r].gameState.timeLimit = last'.arg
             /\ rooms'[r].gameState.players = AllAt(g.players, last'.arg)
             /\ rooms'[r].gameState.windex = -1
             /\ rooms'[r].gameState.currentPlayerIndex = g.currentPlayerIndex]_vars

\* C14 witness: a changeTime has just stopped a running game.
C14_Witness ==
  /\ last.op = "changeTime" /\ last.wasRunning
  /\ last.roomId \in DOMAIN rooms
  /\ LET g == GS(last.roomId)
     IN /\ ~g.running
        /\ g.timeLimit = last.arg
        /\ g.windex = -1
        /\ Len(g.players) = 2
        /\ \A i \in Indices(g) : PlayerAt(g, i).remainingTime = last.arg

\* C15: calling updateCurrentPlayerTime twice with the same value of now
\* deducts no additional time on the second call: every player's
\* remainingTime after the second call equals its value after the first.
C15_SecondAdvanceDeductsNothing ==
  \A r \in DOMAIN rooms :
    LET once == advance(GS(r), now)
        twice == advance(once, now)
    IN \A i \in Indices(once) :
         PlayerAt(twice, i).remainingTime = PlayerAt(once, i).remainingTime

\* C18: updateCurrentPlayerTime at time now changes nothing when running is
\* false; otherwise the current player's remainingTime becomes
\* max(0, remainingTime - (now - lastTickTimestamp)), lastTickTimestamp
\* becomes now, no other player's remainingTime changes, and
\* currentPlayerIndex becomes (index + 1) mod playerCount exactly when the
\* current player's new remainingTime is 0.
C18_Advance ==
  \A r \in DOMAIN rooms :
    LET g == GS(r)
        after == advance(g, now)
        i == g.currentPlayerIndex
        n == Len(g.players)
    IN IF ~g.running THEN after = g
       ELSE /\ i \in Indices(g)
            /\ LET settled == Max(0, PlayerAt(g, i).remainingTime
                                       - (now - g.lastTickTimestamp))
               IN /\ PlayerAt(after, i).remainingTime = settled
                  /\ after.lastTickTimestamp = now
                  /\ \A j \in Indices(g) \ {i} :
                       PlayerAt(after, j).remainingTime = PlayerAt(g, j).remainingTime
                  /\ after.currentPlayerIndex =
                       (IF settled = 0 THEN (i + 1) % n ELSE i)

\* C19: for every reachable running state, applying updateCurrentPlayerTime
\* twice at the same now yields the same GameState (players,
\* currentPlayerIndex, lastTickTimestamp, running, windex) as applying it once.
C19_AdvanceIdempotent ==
  \A r \in DOMAIN rooms :
    GS(r).running =>
      LET once == advance(GS(r), now)
      IN advance(once, now) = once

\* C16: after every handled joinRoom, tap, reset or changeTime, and after
\* every tick on a running room, each open connection of that room's
\* connection set receives exactly one gameState message carrying the room's
\* GameState after the operation; connections that are not open receive
\* nothing.
C16_BroadcastAfterEveryOperation ==
  [][\A r \in DOMAIN rooms' :
       LET handled == /\ last'.op \in {"joinRoom", "tap", "reset", "changeTime"}
                      /\ last'.roomId = r
           ticked == /\ last'.op = "tick"
                     /\ r \in DOMAIN rooms
                     /\ rooms[r].gameState.running
       IN (handled \/ ticked)
          => \A w \in Conns :
               /\ (w \in rooms'[r].connections /\ readyState'[w] = 1)
                    => delivered'[w] = <<rooms'[r].gameState>>
               /\ readyState'[w] # 1 => delivered'[w] = << >>]_vars

\* the step just taken handled a message that the server drops: a tap, reset
\* or changeTime on a connection bound to no room, a joinRoom without roomId
\* or username, or a message of unknown type
DroppedMessage ==
  \/ last'.op = "unknown"
  \/ last'.op \in {"tap", "reset", "changeTime"} /\ wsData[last'.ws].roomId = ""
  \/ last'.op = "joinRoom" /\ (last'.roomId = "" \/ last'.arg = "")

\* C17: a tap, reset or changeTime on a connection that has joined no room, a
\* joinRoom with an empty roomId or username, and a message of unknown type
\* leave every room's GameState and connection set unchanged and send
\* nothing, neither a broadcast nor an error reply.
C17_DroppedMessagesChangeNothing ==
  [][DroppedMessage
       => /\ rooms' = rooms
          /\ roomKeys' = roomKeys
          /\ wsData' = wsData
          /\ delivered' = NoDelivery]_vars

\* C17 witness: a joinRoom without username has just been dropped by a room
\* that exists and has a game running.
C17_Witness ==
  /\ last.op = "joinRoom" /\ last.arg = "" /\ last.roomId \in DOMAIN rooms
  /\ GS(last.roomId).running
  /\ Len(GS(last.roomId).players) = 2
  /\ delivered = NoDelivery

\* C20: joinRoom, reset and changeTime handled on a running room at time now
\* first settle the owed time: lastTickTimestamp becomes now and, after a
\* joinRoom, every player's remainingTime is the one updateCurrentPlayerTime
\* leaves at now.
C20_SettleBeforeActing ==
  [][\A r \in DOMAIN rooms :
       LET g == rooms[r].gameState
       IN ( /\ last'.op \in {"joinRoom", "reset", "changeTime"}
            /\ last'.roomId = r
            /\ g.running )
          => /\ rooms'[r].gameState.lastTickTimestamp = now
             /\ last'.op = "joinRoom"
                  => \A i \in Indices(g) :
                       PlayerAt(rooms'[r].gameState, i).remainingTime
                         = PlayerAt(advance(g, now), i).remainingTime]_vars

\* C23: a tick leaves every room whose clock is not running unchanged and
\* sends it no broadcast; for every room whose clock is running it performs
\* updateCurrentPlayerTime (and the game-over check) and then sends a
\* gameState broadcast to the room's open connections, whether or not the
\* state changed.
C23_TickFrame ==
  [][last'.op = "tick"
       => \A r \in DOMAIN rooms :
            IF ~rooms[r].gameState.running
            THEN /\ rooms'[r] = rooms[r]
                 /\ \A w \in rooms[r].connections : delivered'[w] = << >>
            ELSE /\ ~updateThrows(rooms[r].gameState)
                 /\ rooms'[r].gameState = tickRoom(rooms[r].gameState, now)
                 /\ \A w \in rooms[r].connections :
                      readyState[w] = 1
                        => delivered'[w] = <<rooms'[r].gameState>>]_vars

\* C26: while the clock is running, the player at currentPlayerIndex has
\* remainingTime > 0 in every state a handler or tick leaves behind.
C26_CurrentPlayerHasTime ==
  \A r \in DOMAIN rooms :
    GS(r).running
      => /\ GS(r).currentPlayerIndex \in Indices(GS(r))
         /\ PlayerAt(GS(r), GS(r).currentPlayerIndex).remainingTime > 0

\* C27: handling one tap message moves currentPlayerIndex by at most one
\* position in round-robin order.
C27_TapMovesOnePosition ==
  [][\A r \in DOMAIN rooms :
       LET g == rooms[r].gameState
           i == g.currentPlayerIndex
       IN (last'.op = "tap" /\ last'.roomId = r)
          => rooms'[r].gameState.currentPlayerIndex
               \in {i, (i + 1) % Len(g.players)}]_vars

\* C28: whenever running = true, windex = -1.
C28_NoWinnerWhileRunning ==
  \A r \in DOMAIN rooms : GS(r).running => GS(r).windex = -1

\* C28 witness: a tap has just restarted the clock of a room in which the
\* turn is not at the first player, so a game was played there before, and
\* no winner is marked.
C28_Witness ==
  /\ last.op = "tap" /\ ~last.wasRunning /\ last.roomId \in DOMAIN rooms
  /\ GS(last.roomId).running
  /\ GS(last.roomId).currentPlayerIndex = 1
  /\ GS(last.roomId).windex = -1

\* a sequence back to front
Reverse(seq) == [k \in 1 .. Len(seq) |-> seq[Len(seq) + 1 - k]]

\* C24: a joinRoom, tap, reset or changeTime handled for a room changes the
\* GameState and the connection set of no other room, and the rooms a tick
\* sweep leaves behind do not depend on the order in which it processes them.
C24_RoomsIndependent ==
  /\ [][\A r \in DOMAIN rooms :
          (last'.op \in {"joinRoom", "tap", "reset", "changeTime"} /\ last'.roomId # r)
            => rooms'[r] = rooms[r]]_vars
  /\ [](sweepIn(Reverse(roomKeys), rooms, NoDelivery, 1, now).rooms
          = sweepIn(roomKeys, rooms, NoDelivery, 1, now).rooms)

\* C25: a connection that has closed is a member of no room's connection set.
C25_ClosedConnectionInNoRoom ==
  \A w \in Conns :
    readyState[w] = 3 => \A r \in DOMAIN rooms : w \notin rooms[r].connections

\* the time taken off the first n players of before on the way to after
RECURSIVE DeductedUpTo(_, _, _)
DeductedUpTo(before, after, n) ==
  IF n = 0 THEN 0
  ELSE DeductedUpTo(before, after, n - 1)
         + Max(0, before.players[n].remainingTime - after.players[n].remainingTime)

\* the time taken off the players of before on the way to after
Deducted(before, after) == DeductedUpTo(before, after, Len(before.players))

\* C21: elapsed time is never double-counted. A step that is not a reset or
\* changeTime deducts from the players of a room at most the wall-clock time
\* that has passed since lastTickTimestamp, and nothing while the clock is
\* stopped; a step that deducts moves lastTickTimestamp to now, a step that
\* starts the clock sets it to now, and it never moves back. The stretches of
\* time charged therefore lie within the time the clock was running and do
\* not overlap, so the total deducted since the remaining times were last
\* set never exceeds the time the clock was running.
C21_NoDoubleCounting ==
  [][\A r \in DOMAIN rooms :
       LET g == rooms[r].gameState
           h == rooms'[r].gameState
       IN /\ h.lastTickTimestamp >= g.lastTickTimestamp
          /\ h.lastTickTimestamp <= now'
          /\ ~(last'.op \in {"reset", "changeTime"} /\ last'.roomId = r)
               => /\ Deducted(g, h)
                       <= (IF g.running THEN now' - g.lastTickTimestamp ELSE 0)
                  /\ Deducted(g, h) > 0 => h.lastTickTimestamp = now'
                  /\ (h.running /\ ~g.running) => h.lastTickTimestamp = now']_vars

\* C21 witness: a game started at time 0 with both players at the default
\* limit has run for two milliseconds, settled by a tap and by a tick, and
\* exactly two milliseconds are missing from the players' clocks.
C21_Witness ==
  \E r \in DOMAIN rooms :
    /\ Ticked
    /\ GS(r).running
    /\ now = 2 * MS
    /\ GS(r).lastTickTimestamp = now
    /\ Len(GS(r).players) = 2
    /\ PlayerAt(GS(r), 0).remainingTime = TIME_LIMIT - MS
    /\ PlayerAt(GS(r), 1).remainingTime = TIME_LIMIT - MS

\* every connection has closed: no client message is handled any more
Quiet == \A w \in Conns : readyState[w] = 3

\* some room's clock is running
SomeRunning == \E r \in DOMAIN rooms : GS(r).running

\* C22: if a room's clock is running and from some point on no client
\* message is handled, while time keeps advancing and the tick keeps firing,
\* then eventually running = false.
C22_TickEndsGame == (Quiet /\ SomeRunning) ~> ~SomeRunning

====
